---- MODULE Spec2Model ----
(***************************************************************************)
(* Model of wal_utils/wal_utils.c: parseTimeLineHistory, the SQL-callable  *)
(* parse_wal_history and build_wal_segment_list.                           *)
(*                                                                         *)
(* Widths are scaled: the 32-bit words switchpoint_hi / switchpoint_lo are *)
(* one hexadecimal digit wide (Uint32Mod = 16), XLogRecPtr is two such     *)
(* words (Uint64Mod = 256) and a WAL segment is XLOG_SEG_SIZE = 8 bytes,   *)
(* so the position range holds 32 segments and every wrap-around of the    *)
(* unsigned arithmetic is reachable.  Texts are sequences of characters.   *)
(***************************************************************************)
EXTENDS Integers, Sequences, FiniteSets, TLC

VARIABLES fn, origin_tli, origin_lsn, target_tli, target_lsn, history_buf,
          pc, entries, cur, current_seg_lsn, current_tli, tupstore, err

vars == <<fn, origin_tli, origin_lsn, target_tli, target_lsn, history_buf,
          pc, entries, cur, current_seg_lsn, current_tli, tupstore, err>>

inputs == <<fn, origin_tli, origin_lsn, target_tli, target_lsn, history_buf>>

(***************************************************************************)
(* Program constants (scaled) and the bounds of the explored inputs.       *)
(***************************************************************************)
Uint32Mod == 16
XLOG_SEG_SIZE == 8
Uint64Mod == Uint32Mod * Uint32Mod
InvalidXLogRecPtr == 0
XLogSegmentsPerXLogId == Uint32Mod \div XLOG_SEG_SIZE
NumSegs == Uint64Mod \div XLOG_SEG_SIZE

MaxLines == 2
MaxTli == 3
MaxFairChars == 8
\* the recorded part of the tuplestore; a run that ends emits less
MaxEmit == 2 * NumSegs + 2

(***************************************************************************)
(* Characters and the scanning done by sscanf(fline, "%u\t%X/%X", ...).    *)
(***************************************************************************)
HexChars == <<"0", "1", "2", "3", "4", "5", "6", "7", "8", "9",
              "A", "B", "C", "D", "E", "F">>

DigitVal(c) == (CHOOSE i \in 1..16 : HexChars[i] = c) - 1

IsHexDigit(c) == \E i \in 1..16 : HexChars[i] = c

IsDecDigit(c) == \E i \in 1..10 : HexChars[i] = c

\* isspace() on the characters a line can hold
IsSpace(c) == c \in {" ", "\t"}

\* first index >= i of s that holds no white space (Len(s)+1 if none)
SkipSpace(s, i) ==
    LET skip[j \in 1..(Len(s) + 2)] ==
            IF j <= Len(s) /\ IsSpace(s[j]) THEN skip[j + 1] ELSE j
    IN  skip[i]

\* first index >= i of s that holds no decimal (base 10) or hex (base 16) digit
ScanDigits(s, i, base) ==
    LET scan[j \in 1..(Len(s) + 2)] ==
            IF j <= Len(s) /\ (IF base = 10 THEN IsDecDigit(s[j]) ELSE IsHexDigit(s[j]))
            THEN scan[j + 1]
            ELSE j
    IN  scan[i]

\* value of the digits s[i..j-1] in the base, as an unsigned 32-bit word
DigitsVal(s, i, j, base) ==
    LET val[k \in 1..(Len(s) + 2)] ==
            IF k <= i THEN 0
            ELSE ((val[k - 1] * base) + DigitVal(s[k - 1])) % Uint32Mod
    IN  val[j]

\* sscanf(fline, "%u\t%X/%X", &tli, &switchpoint_hi, &switchpoint_lo) on lines
\* without sign or 0x prefix: each conversion and the white space of the
\* format skip white space, a conversion needs one digit at least
sscanf(fline) ==
    LET t0 == SkipSpace(fline, 1)
        t1 == ScanDigits(fline, t0, 10)
        h0 == SkipSpace(fline, t1)
        h1 == ScanDigits(fline, h0, 16)
        l0 == SkipSpace(fline, h1 + 1)
        l1 == ScanDigits(fline, l0, 16)
        tli == DigitsVal(fline, t0, t1, 10)
        hi == DigitsVal(fline, h0, h1, 16)
        lo == DigitsVal(fline, l0, l1, 16)
    IN  IF t1 = t0 THEN [nfields |-> 0, tli |-> 0, hi |-> 0, lo |-> 0]
        ELSE IF h1 = h0 THEN [nfields |-> 1, tli |-> tli, hi |-> 0, lo |-> 0]
        ELSE IF h1 > Len(fline) \/ fline[h1] # "/" \/ l1 = l0
             THEN [nfields |-> 2, tli |-> tli, hi |-> hi, lo |-> 0]
        ELSE [nfields |-> 3, tli |-> tli, hi |-> hi, lo |-> lo]

\* the line starting at index i of the buffer: up to the next '\n' or the end
LineEnd(buffer, i) ==
    LET scan[j \in 1..(Len(buffer) + 1)] ==
            IF j <= Len(buffer) /\ buffer[j] # "\n" THEN scan[j + 1] ELSE j
    IN  scan[i]

\* skip leading whitespace and check for # comment
IsCommentLine(fline) ==
    LET ptr == SkipSpace(fline, 1)
    IN  ptr > Len(fline) \/ fline[ptr] = "#"

\* the test of the timeline order, true when the line is rejected
TliOutOfOrder_eq(tli, lasttli) == tli < lasttli
TliOutOfOrder(tli, lasttli) == tli <= lasttli

\* one more entry, begin carried over from the previous end
NewEntry_late(tli, prevend, hi, lo) ==
    [tli |-> tli, begin |-> (hi * Uint32Mod) + lo, end |-> (hi * Uint32Mod) + lo]
NewEntry(tli, prevend, hi, lo) ==
    [tli |-> tli, begin |-> prevend, end |-> (hi * Uint32Mod) + lo]

\* the state of the while (!lastline) loop: bufptr, lasttli, prevend, entries
ParseStates == Nat \X Nat \X Nat \X Seq([tli : Nat, begin : Nat, end : Nat])

\* the while (!lastline) loop, one turn per line of the buffer
parseTimeLineHistory(buffer) ==
    LET loop[st \in ParseStates] ==
            LET bufptr == st[1]
                lasttli == st[2]
                prevend == st[3]
                acc == st[4]
                e == LineEnd(buffer, bufptr)
                lastline == e > Len(buffer)
                fline == SubSeq(buffer, bufptr, e - 1)
                f == sscanf(fline)
                entry == NewEntry(f.tli, prevend, f.hi, f.lo)
            IN  IF IsCommentLine(fline)
                THEN IF lastline THEN [err |-> "none", entries |-> acc]
                     ELSE loop[<<e + 1, lasttli, prevend, acc>>]
                ELSE IF f.nfields < 1
                     THEN [err |-> "MissingTimelineId", entries |-> << >>]
                ELSE IF f.nfields # 3
                     THEN [err |-> "MissingSwitchPoint", entries |-> << >>]
                ELSE IF TliOutOfOrder(f.tli, lasttli)
                     THEN [err |-> "NonIncreasingTimeline", entries |-> << >>]
                ELSE IF lastline
                     THEN [err |-> "none", entries |-> Append(acc, entry)]
                ELSE loop[<<e + 1, f.tli, entry.end, Append(acc, entry)>>]
    IN  loop[<<1, 0, InvalidXLogRecPtr, << >>>>]

(***************************************************************************)
(* Segment arithmetic of access/xlog_internal.h as the file uses it.       *)
(***************************************************************************)
\* XLByteToPrevSeg(xlrp, logSegNo): logSegNo = (xlrp - 1) / XLogSegSize, unsigned
XLByteToSeg(xlrp) == xlrp \div XLOG_SEG_SIZE
XLByteToPrevSeg(xlrp) == ((xlrp + Uint64Mod - 1) % Uint64Mod) \div XLOG_SEG_SIZE

\* XLogFileName(fname, tli, logSegNo): "%08X%08X%08X" of the three words
XLogFileName(tli, logSegNo) ==
    [tli |-> tli,
     log |-> (logSegNo \div XLogSegmentsPerXLogId) % Uint32Mod,
     seg |-> (logSegNo % XLogSegmentsPerXLogId) % Uint32Mod]

\* current_seg_lsn = lsn + XLOG_SEG_SIZE; current_seg_lsn -= current_seg_lsn % XLOG_SEG_SIZE
NextSegStart_skip(lsn) ==
    LET s == (lsn + (2 * XLOG_SEG_SIZE)) % Uint64Mod IN s - (s % XLOG_SEG_SIZE)
NextSegStart(lsn) ==
    LET s == (lsn + XLOG_SEG_SIZE) % Uint64Mod IN s - (s % XLOG_SEG_SIZE)

\* the name of the last segment, the one that reaches the target point
LastSegment_cur(tli, lsn) == XLogFileName(tli, XLByteToSeg(lsn))
LastSegment(tli, lsn) == XLogFileName(tli, XLByteToPrevSeg(lsn))

\* the name stored by one turn of the inner loop
LoopSegment_cur(tli, lsn) == XLogFileName(tli, XLByteToSeg(lsn))
LoopSegment(tli, lsn) == XLogFileName(tli, XLByteToPrevSeg(lsn))

(***************************************************************************)
(* The sanity checks of build_wal_segment_list.                            *)
(***************************************************************************)
\* the checks on target and origin data, before the history is parsed
ArgsError_swapped(otli, olsn, ttli, tlsn) ==
    IF otli > ttli THEN "OriginTimelineNewerThanTarget"
    ELSE IF olsn > tlsn THEN "OriginNewerThanTarget"
    ELSE "none"
ArgsError(otli, olsn, ttli, tlsn) ==
    IF olsn > tlsn THEN "OriginNewerThanTarget"
    ELSE IF otli > ttli THEN "OriginTimelineNewerThanTarget"
    ELSE "none"

\* history->tli >= target_tli
HistoryTliTooNew_gt(htli, ttli) == htli > ttli
HistoryTliTooNew(htli, ttli) == htli >= ttli

\* history->end > target_lsn
HistoryEndTooNew(hend, tlsn) == hend > tlsn

\* the checks on the last entry of the history file
HistoryError(h, ttli, tlsn) ==
    IF HistoryTliTooNew(h.tli, ttli) THEN "HistoryTimelineNotOlderThanTarget"
    ELSE IF HistoryEndTooNew(h.end, tlsn) THEN "HistoryEndNewerThanTarget"
    ELSE "none"

\* the test of the loop that looks for the entry of the origin
IsDirectParent(h, otli, olsn) ==
    h.begin <= olsn /\ h.end >= olsn /\ h.tli = otli

\* index of the entry the loop breaks on, 0 when history_match stays false
MatchIndex(es, otli, olsn) ==
    IF \E i \in 1..Len(es) : IsDirectParent(es[i], otli, olsn)
    THEN CHOOSE i \in 1..Len(es) :
            /\ IsDirectParent(es[i], otli, olsn)
            /\ \A j \in 1..(i - 1) : ~IsDirectParent(es[j], otli, olsn)
    ELSE 0

\* the entry added with the target data
TargetEntry(h, ttli, tlsn) == [tli |-> ttli, begin |-> h.end, end |-> tlsn]

\* the condition of the inner while loop
InSegmentRange(lsn, h) == lsn >= h.begin /\ lsn < h.end

\* a row of parse_wal_history: NULL for an invalid position
HistoryRow(h) ==
    [tli |-> h.tli,
     begin |-> IF h.begin = InvalidXLogRecPtr THEN "NULL" ELSE h.begin,
     end |-> IF h.end = InvalidXLogRecPtr THEN "NULL" ELSE h.end]

(***************************************************************************)
(* Inputs.                                                                 *)
(***************************************************************************)
LineSamples ==
    { <<"1", "\t", "1", "/", "8">>,
      <<"2", "\t", "2", "/", "8">>,
      <<"2", "\t", "0", "/", "8">>,
      <<"1", "\t", "0", "/", "0">>,
      <<"2", "\t", "F", "/", "F", " ", "x">>,
      <<" ", "#", "1">>,
      <<"x", "\t", "0", "/", "0">>,
      <<"2", "\t", "1">> }

RECURSIVE JoinLines(_)
JoinLines(ls) ==
    IF Len(ls) = 0 THEN << >>
    ELSE IF Len(ls) = 1 THEN ls[1]
    ELSE ls[1] \o <<"\n">> \o JoinLines(Tail(ls))

\* up to MaxLines lines, the last one with or without its newline
HistoryTexts ==
    { JoinLines(ls) \o nl :
        ls \in UNION { [1..n -> LineSamples] : n \in 0..MaxLines },
        nl \in { << >>, <<"\n">> } }

OriginTlis == {1, 2}
OriginLsns == {0, 5, 24, 253}
TargetLsns == {0, 16, 40, 47, 255}

(***************************************************************************)
(* The state machine.                                                      *)
(***************************************************************************)
Init ==
    /\ history_buf \in HistoryTexts
    /\ \/ /\ fn = "parse_wal_history"
          /\ origin_tli = 0 /\ origin_lsn = 0
          /\ target_tli = 0 /\ target_lsn = 0
       \/ /\ fn = "build_wal_segment_list"
          /\ origin_tli \in OriginTlis
          /\ target_tli \in 1..MaxTli
          /\ origin_lsn \in OriginLsns
          /\ target_lsn \in TargetLsns
    /\ pc = "start"
    /\ entries = << >>
    /\ cur = 0
    /\ current_seg_lsn = 0
    /\ current_tli = 0
    /\ tupstore = << >>
    /\ err = "none"

\* parse_wal_history, lines 166-201
ParseWalHistory ==
    /\ fn = "parse_wal_history" /\ pc = "start"
    /\ LET r == parseTimeLineHistory(history_buf)
       IN  IF r.err # "none"
           THEN /\ pc' = "error" /\ err' = r.err
                /\ UNCHANGED <<entries, tupstore>>
           ELSE /\ pc' = "done"
                /\ entries' = r.entries
                /\ tupstore' = [i \in 1..Len(r.entries) |-> HistoryRow(r.entries[i])]
                /\ err' = "none"
    /\ UNCHANGED <<inputs, cur, current_seg_lsn, current_tli>>

\* build_wal_segment_list, lines 271-284
CheckArgs ==
    /\ fn = "build_wal_segment_list" /\ pc = "start"
    /\ LET e == ArgsError(origin_tli, origin_lsn, target_tli, target_lsn)
       IN  IF e # "none"
           THEN /\ pc' = "error"
                /\ err' = e
           ELSE /\ pc' = "parse"
                /\ err' = "none"
    /\ UNCHANGED <<inputs, entries, cur, current_seg_lsn, current_tli, tupstore>>

\* build_wal_segment_list, line 287
ParseHistory ==
    /\ pc = "parse"
    /\ LET r == parseTimeLineHistory(history_buf)
       IN  IF r.err # "none"
           THEN /\ pc' = "error"
                /\ err' = r.err
                /\ entries' = entries
           ELSE /\ pc' = "validate"
                /\ err' = "none"
                /\ entries' = r.entries
    /\ UNCHANGED <<inputs, cur, current_seg_lsn, current_tli, tupstore>>

\* build_wal_segment_list, lines 293-360, on a history with entries: the
\* checks, the entry of the target, the first segment boundary and the
\* start of the walk on the first entry
ValidateHistory ==
    /\ pc = "validate" /\ Len(entries) > 0
    /\ LET e == HistoryError(entries[Len(entries)], target_tli, target_lsn)
           m == MatchIndex(entries, origin_tli, origin_lsn)
       IN  IF e # "none"
           THEN /\ pc' = "error" /\ err' = e
                /\ UNCHANGED <<entries, cur, current_seg_lsn, current_tli>>
           ELSE IF m = 0
           THEN /\ pc' = "error" /\ err' = "OriginNotDirectParent"
                /\ UNCHANGED <<entries, cur, current_seg_lsn, current_tli>>
           ELSE /\ pc' = "walk" /\ err' = "none"
                /\ entries' = Append(entries, TargetEntry(entries[m], target_tli, target_lsn))
                /\ current_seg_lsn' = NextSegStart(origin_lsn)
                /\ current_tli' = entries[1].tli
                /\ cur' = 1
    /\ UNCHANGED <<inputs, tupstore>>

\* lines 293-329 on a history without entries: llast(NIL) reads through a
\* null pointer, so the process dies there or the checks run on whatever the
\* read gave; the loop over no entry then leaves history_match false
ValidateEmptyHistory ==
    /\ pc = "validate" /\ Len(entries) = 0
    /\ \/ pc' = "crash" /\ err' = "none"
       \/ \E gtli \in 0..MaxTli, gend \in TargetLsns :
            LET e == HistoryError([tli |-> gtli, begin |-> 0, end |-> gend],
                                  target_tli, target_lsn)
            IN  /\ pc' = "error"
                /\ err' = IF e # "none" THEN e ELSE "OriginNotDirectParent"
    /\ UNCHANGED <<inputs, entries, cur, current_seg_lsn, current_tli, tupstore>>

\* one turn of the inner while loop, lines 363-378
StoreSegment ==
    /\ pc = "walk" /\ cur <= Len(entries)
    /\ InSegmentRange(current_seg_lsn, entries[cur])
    /\ tupstore' = IF Len(tupstore) < MaxEmit
                   THEN Append(tupstore, LoopSegment(current_tli, current_seg_lsn))
                   ELSE tupstore
    /\ current_seg_lsn' = NextSegStart(current_seg_lsn)
    /\ UNCHANGED <<inputs, pc, entries, cur, current_tli, err>>

\* the inner loop ends and the foreach moves on to the next entry, if any,
\* whose timeline becomes the current one, lines 356-364
NextHistoryEntry ==
    /\ pc = "walk" /\ cur <= Len(entries)
    /\ ~InSegmentRange(current_seg_lsn, entries[cur])
    /\ current_tli' = IF cur < Len(entries) THEN entries[cur + 1].tli ELSE current_tli
    /\ cur' = cur + 1
    /\ UNCHANGED <<inputs, pc, entries, current_seg_lsn, tupstore, err>>

\* lines 381-394
StoreLastSegment ==
    /\ pc = "walk" /\ cur > Len(entries)
    /\ tupstore' = Append(tupstore, LastSegment(target_tli, target_lsn))
    /\ pc' = "done"
    /\ UNCHANGED <<inputs, entries, cur, current_seg_lsn, current_tli, err>>

Next ==
    \/ ParseWalHistory
    \/ CheckArgs
    \/ ParseHistory
    \/ ValidateHistory
    \/ ValidateEmptyHistory
    \/ StoreSegment
    \/ NextHistoryEntry
    \/ StoreLastSegment

Spec == Init /\ [][Next]_vars

\* the calls on the shorter texts, run to their end: a call that can take a
\* step takes it
FairInit == Init /\ Len(history_buf) <= MaxFairChars

FairSpec == FairInit /\ [][Next]_vars /\ WF_vars(Next)

TypeOK ==
    /\ pc \in {"start", "parse", "validate", "walk", "done", "error", "crash"}
    /\ cur \in 0..(MaxLines + 2)
    /\ current_seg_lsn \in 0..(Uint64Mod - 1)
    /\ Len(tupstore) <= MaxEmit + 1

(***************************************************************************)
(* Vocabulary of the properties.                                           *)
(***************************************************************************)
Build == fn = "build_wal_segment_list"

Ended == pc \in {"done", "error", "crash"}

\* the segment number a stored name stands for
SegNoOf(id) == (id.log * XLogSegmentsPerXLogId) + id.seg

\* the lines of the buffer from index i on, and the scans of its data lines
RECURSIVE LinesOf(_, _)
LinesOf(buffer, i) ==
    LET e == LineEnd(buffer, i)
    IN  <<SubSeq(buffer, i, e - 1)>>
          \o (IF e > Len(buffer) THEN << >> ELSE LinesOf(buffer, e + 1))

IsDataLine(fline) == ~IsCommentLine(fline)

DataLines == SelectSeq(LinesOf(history_buf, 1), IsDataLine)

DataScans == [i \in 1..Len(DataLines) |-> sscanf(DataLines[i])]

\* in the scans ds of the data lines, a line the parser stops on
BadLine(ds, i) ==
    \/ ds[i].nfields # 3
    \/ ds[i].tli <= (IF i = 1 THEN 0 ELSE ds[i - 1].tli)

FirstBadLine(ds) ==
    IF \E i \in 1..Len(ds) : BadLine(ds, i)
    THEN CHOOSE i \in 1..Len(ds) :
            BadLine(ds, i) /\ \A j \in 1..(i - 1) : ~BadLine(ds, j)
    ELSE 0

\* the states that hold the entries of a parse that succeeded, and these entries
HoldsEntries ==
    \/ fn = "parse_wal_history" /\ pc = "done"
    \/ Build /\ pc \in {"validate", "walk", "done"}

Walked == Build /\ pc \in {"walk", "done"}

ParsedEntries ==
    IF Walked THEN SubSeq(entries, 1, Len(entries) - 1) ELSE entries

\* the names stored by the loop over the entries, without the last segment
LoopNames ==
    IF pc = "done" THEN SubSeq(tupstore, 1, Len(tupstore) - 1) ELSE tupstore

\* the switch points of the parsed history never go back / always go forward
SwitchPointsOrdered ==
    \A i \in 2..Len(ParsedEntries) : ParsedEntries[i - 1].end <= ParsedEntries[i].end

SwitchPointsIncrease ==
    \A i \in 2..Len(ParsedEntries) : ParsedEntries[i - 1].end < ParsedEntries[i].end

\* the error the checks give when applied in their order to the parsed entries
C1_Expected ==
    LET es == parseTimeLineHistory(history_buf).entries
        last == es[Len(es)]
    IN  IF Len(es) = 0 THEN "none"
        ELSE IF origin_lsn > target_lsn THEN "OriginNewerThanTarget"
        ELSE IF origin_tli > target_tli THEN "OriginTimelineNewerThanTarget"
        ELSE IF ~(last.tli < target_tli) THEN "HistoryTimelineNotOlderThanTarget"
        ELSE IF ~(last.end <= target_lsn) THEN "HistoryEndNewerThanTarget"
        ELSE IF ~(\E i \in 1..Len(es) :
                    /\ es[i].begin <= origin_lsn /\ origin_lsn <= es[i].end
                    /\ es[i].tli = origin_tli)
             THEN "OriginNotDirectParent"
        ELSE "none"

(***************************************************************************)
(* C1: when the history text parses to a non-empty entry sequence, the     *)
(* call fails with the error of the first check, in the order origin LSN,  *)
(* origin timeline, timeline of the last entry, end of the last entry,     *)
(* direct parent, that does not hold; a call that fails stores no name.    *)
(***************************************************************************)
C1_ChecksInOrder ==
    LET expected == C1_Expected
    IN  (Build /\ Len(parseTimeLineHistory(history_buf).entries) > 0)
        => /\ pc = "error" => (err = expected /\ tupstore = << >>)
           /\ expected # "none" => (tupstore = << >> /\ pc \notin {"walk", "done"})
           /\ pc \in {"parse", "validate"} =>
                 expected \notin {"OriginNewerThanTarget", "OriginTimelineNewerThanTarget"}

C1_Witness ==
    /\ Build /\ pc = "error" /\ err = "OriginNewerThanTarget"
    /\ origin_tli > target_tli
    /\ Len(parseTimeLineHistory(history_buf).entries) > 0

(***************************************************************************)
(* C2: a call that returns gives a non-empty list in which timelines never *)
(* decrease and, within one timeline, segment numbers strictly increase    *)
(* (so no name occurs twice), the last segment included.                   *)
(***************************************************************************)
C2_StrictlyIncreasing ==
    (Build /\ pc = "done")
    => /\ Len(tupstore) >= 1
       /\ \A i \in 1..Len(tupstore), j \in 1..Len(tupstore) :
            i < j => /\ tupstore[i].tli <= tupstore[j].tli
                     /\ tupstore[i] # tupstore[j]
                     /\ tupstore[i].tli = tupstore[j].tli
                          => SegNoOf(tupstore[i]) < SegNoOf(tupstore[j])

(***************************************************************************)
(* C3: the name (origin_tli, segment of origin_lsn) is never in the list   *)
(* a call returns.                                                         *)
(***************************************************************************)
C3_OriginSegmentNotEmitted ==
    (Build /\ pc = "done")
    => \A i \in 1..Len(tupstore) :
          ~(/\ tupstore[i].tli = origin_tli
            /\ SegNoOf(tupstore[i]) = origin_lsn \div XLOG_SEG_SIZE)

(***************************************************************************)
(* C3 as amended: the loop over the entries stores the segment that ends   *)
(* at the cursor; its first name bears the segment number of origin_lsn    *)
(* and its k-th name that number plus k - 1, modulo the number of          *)
(* segments, each with the timeline of an entry of the extended history.   *)
(***************************************************************************)
C3_LoopEmitsSegmentBeforeCursor ==
    Walked
    => \A k \in 1..Len(LoopNames) :
          /\ SegNoOf(LoopNames[k]) = ((origin_lsn \div XLOG_SEG_SIZE) + (k - 1)) % NumSegs
          /\ \E i \in 1..Len(entries) : entries[i].tli = LoopNames[k].tli

C3_Witness ==
    /\ Build /\ pc = "done" /\ Len(tupstore) >= 3
    /\ tupstore[1].tli = origin_tli
    /\ SegNoOf(tupstore[1]) = origin_lsn \div XLOG_SEG_SIZE

(***************************************************************************)
(* C4: the last name of the list a call returns is the one of              *)
(* (target_tli, floor(target_lsn / segment size)).                         *)
(***************************************************************************)
C4_LastIsTargetSegment ==
    (Build /\ pc = "done")
    => /\ tupstore[Len(tupstore)].tli = target_tli
       /\ SegNoOf(tupstore[Len(tupstore)]) = target_lsn \div XLOG_SEG_SIZE

(***************************************************************************)
(* C4 as amended: the last name is the one of target_tli and of the        *)
(* segment holding the byte before target_lsn, floor((target_lsn - 1) /    *)
(* segment size) in unsigned arithmetic: the last segment of the range for *)
(* target_lsn = 0, the segment before for an exact multiple.               *)
(***************************************************************************)
C4_LastIsSegmentBeforeTarget ==
    (Build /\ pc = "done")
    => /\ tupstore[Len(tupstore)].tli = target_tli
       /\ SegNoOf(tupstore[Len(tupstore)]) =
             IF target_lsn = 0 THEN NumSegs - 1
             ELSE (target_lsn - 1) \div XLOG_SEG_SIZE

C4_Witness ==
    /\ Build /\ pc = "done"
    /\ target_lsn > 0 /\ target_lsn % XLOG_SEG_SIZE = 0
    /\ SegNoOf(tupstore[Len(tupstore)]) = (target_lsn \div XLOG_SEG_SIZE) - 1

(***************************************************************************)
(* C5: in the list a call returns, the segment numbers of any two          *)
(* consecutive names differ by exactly 1, the last segment included.       *)
(***************************************************************************)
C5_GapFree ==
    (Build /\ pc = "done")
    => \A i \in 1..(Len(tupstore) - 1) :
          SegNoOf(tupstore[i + 1]) = SegNoOf(tupstore[i]) + 1

(***************************************************************************)
(* C5 as amended: when the switch points of the history never go back,     *)
(* the segment numbers of consecutive names differ by exactly 1 modulo the *)
(* number of segments of the position range (the step from the last        *)
(* segment number to 0 occurs when origin_lsn lies in the last segment).   *)
(***************************************************************************)
C5_GapFreeOrderedHistory ==
    (Build /\ pc = "done" /\ SwitchPointsOrdered)
    => \A i \in 1..(Len(tupstore) - 1) :
          SegNoOf(tupstore[i + 1]) = (SegNoOf(tupstore[i]) + 1) % NumSegs

C5_Witness ==
    /\ Build /\ pc = "done" /\ SwitchPointsOrdered
    /\ Len(tupstore) >= 4
    /\ \E i \in 1..(Len(tupstore) - 1) : tupstore[i].tli # tupstore[i + 1].tli

\* the call of the second example, on the scale of the model
C6_Input ==
    /\ Build
    /\ history_buf = <<"1", "\t", "1", "/", "8", "\n", "2", "\t", "2", "/", "8", "\n">>
    /\ origin_tli = 1 /\ origin_lsn = 0
    /\ target_tli = 2 /\ target_lsn = 40

(***************************************************************************)
(* C6: with 16 MB segments and the history "1 0/3000000, 2 0/5000000",     *)
(* build_segment_list(1, 0, 2, 0x5000000, text) returns a list, ending     *)
(* with the name of (2, segment of 0x5000000).  On the scale of the model  *)
(* a segment is 8 bytes and the switch points are 1/8 (24) and 2/8 (40).   *)
(***************************************************************************)
C6_Succeeds ==
    C6_Input
    => /\ pc # "error"
       /\ pc = "done" =>
            /\ tupstore[Len(tupstore)].tli = 2
            /\ SegNoOf(tupstore[Len(tupstore)]) = 40 \div XLOG_SEG_SIZE

(***************************************************************************)
(* C6 as amended: that call fails with HistoryTimelineNotOlderThanTarget,  *)
(* the last timeline of the history (2) not being older than the target    *)
(* timeline (2), and stores no name.                                       *)
(***************************************************************************)
C6_FailsOnHistoryTimeline ==
    C6_Input
    => /\ pc \in {"start", "parse", "validate", "error"}
       /\ pc = "error" => err = "HistoryTimelineNotOlderThanTarget"
       /\ tupstore = << >>

C6_Witness ==
    C6_Input /\ pc = "error" /\ err = "HistoryTimelineNotOlderThanTarget"

\* the call failed in the parser, not in the checks of its arguments
C7_ParseFailed ==
    /\ pc = "error"
    /\ err \notin {"OriginNewerThanTarget", "OriginTimelineNewerThanTarget"}

C8_EmptyHistoryRejected ==
    Len(DataLines) = 0
    => /\ (fn = "parse_wal_history" /\ Ended) => (pc = "done" /\ entries = << >>)
       /\ Build =>
            /\ pc # "crash"
            /\ tupstore = << >>
            /\ (pc = "error" /\ origin_lsn <= target_lsn /\ origin_tli <= target_tli)
                  => err = "EmptyHistory"

(***************************************************************************)
(* C9: every entry of a parsed history, and of the extended history the    *)
(* walk uses, has begin < end, but for a first entry whose begin is        *)
(* INVALID.                                                                *)
(***************************************************************************)
C9_BeginBeforeEnd ==
    HoldsEntries
    => \A i \in 1..Len(entries) :
          \/ entries[i].begin < entries[i].end
          \/ i = 1 /\ entries[i].begin = InvalidXLogRecPtr

(***************************************************************************)
(* C9 as amended: when the switch points of the text strictly increase,    *)
(* every parsed entry after the first has begin < end, and the entry added *)
(* for the target has begin <= end.                                        *)
(***************************************************************************)
C9_BeginBeforeEndIncreasingHistory ==
    (HoldsEntries /\ SwitchPointsIncrease)
    => /\ \A i \in 2..Len(ParsedEntries) :
            ParsedEntries[i].begin < ParsedEntries[i].end
       /\ Walked => entries[Len(entries)].begin <= entries[Len(entries)].end

C9_Witness ==
    /\ Walked /\ SwitchPointsIncrease /\ Len(entries) = 3
    /\ entries[3].begin = entries[3].end

(***************************************************************************)
(* C10: every call ends, in an error or with a finite list.                *)
(***************************************************************************)
C10_Terminates == <>Ended

====
